---- MODULE Spec2Model ----
(***************************************************************************)
(* A model of the stage pipeline of ModularPlantCVPipelinesMPS:           *)
(* Pipeline.__init__ / IsCompatible / Format / FormatSet (Pipeline.py),    *)
(* the stages' GetInterfaceIDs and Invoke (Stage.py), the channel classes  *)
(* (StageChannel.py) and the data records (DataTypes.py).                  *)
(*                                                                         *)
(* Python objects are records with a field cls naming their class; an      *)
(* attribute access obj.a on an object without the attribute raises        *)
(* AttributeError, which the model keeps (HasAttr).  The PlantCV calls are *)
(* external: an image they return is the input image's pixel trace with    *)
(* the call's name appended, and what they detect in an image is drawn     *)
(* from a small set of outcomes.                                           *)
(***************************************************************************)
EXTENDS Integers, Sequences, FiniteSets, TLC

\* ------------------------------------------------------------------------
\* Bounds of the model
\* ------------------------------------------------------------------------
MaxStages == 4      \* longest stage list handed to Pipeline(cfg)
MaxUnits == 2       \* longest DataUnit list handed to FormatSet
MaxClusters == 2    \* most clusters pcv.spatial_clustering reports of an image
MaxDepth == 3       \* most rounds of clustering until every cluster is stable
MaxId == 3          \* largest value getrandbits draws (2^256 - 1 in the program)

\* ------------------------------------------------------------------------
\* StageChannel.py: the classes' CHANNEL_ID (one draw of getrandbits(256)
\* per class at import; the draw modelled here has no two equal)
\* ------------------------------------------------------------------------
SingleImageChannelID == 1
DoubleImageChannelID == 2
SnapshotChannelID == 3
SegmentationChannelID == 4

ChannelIDs ==
  {SingleImageChannelID, DoubleImageChannelID, SnapshotChannelID, SegmentationChannelID}

\* ------------------------------------------------------------------------
\* Python values
\* ------------------------------------------------------------------------
PyInt(n) == [cls |-> "int", value |-> n]
None == [cls |-> "NoneType"]
ndarray(px) == [cls |-> "ndarray", px |-> px]
HasAttr(obj, a) == a \in DOMAIN obj
IsArray(v) == v.cls = "ndarray"

\* the outcome of a call: a returned value or a raised exception
Return(v) == [out |-> "return", value |-> v]
Raise(e) == [out |-> "raise", exc |-> e]
Returned(o) == o.out = "return"

\* ------------------------------------------------------------------------
\* StageChannel.py: the channel classes
\* ------------------------------------------------------------------------
SingleImageChannel(img) == [cls |-> "SingleImageChannel", img |-> img]

DoubleImageChannel(imgPrimary, imgSecondary, tag) ==
  [cls |-> "DoubleImageChannel", imgPrimary |-> imgPrimary,
   imgSecondary |-> imgSecondary, tag |-> tag]

SnapshotChannel(formatted) == [cls |-> "SnapshotChannel", formatted |-> formatted]

SegmentationChannel(contours, masks, rgb, tag) ==
  [cls |-> "SegmentationChannel", contours |-> contours, masks |-> masks,
   rgb |-> rgb, tag |-> tag]

\* the CHANNEL_ID of the class of a channel object (0: not a channel)
ChannelIdOf(ch) ==
  CASE ch.cls = "SingleImageChannel" -> SingleImageChannelID
    [] ch.cls = "DoubleImageChannel" -> DoubleImageChannelID
    [] ch.cls = "SnapshotChannel" -> SnapshotChannelID
    [] ch.cls = "SegmentationChannel" -> SegmentationChannelID
    [] OTHER -> 0

\* ------------------------------------------------------------------------
\* DataTypes.py
\* ------------------------------------------------------------------------
MetaData(timestamp, rgbFile) ==
  [cls |-> "MetaData", timestamp |-> timestamp, rgbFile |-> rgbFile]
RawData(valid, rgb) == [cls |-> "RawData", valid |-> valid, rgb |-> rgb]
DataUnit(raw, meta) == [cls |-> "DataUnit", raw |-> raw, meta |-> meta]
FormattedData(base, proc) == [cls |-> "FormattedData", base |-> base, proc |-> proc]

\* Loader.py: GenRaw gives RawData(True, img) or, for a night image,
\* RawData(False, 0); GetTimestamp returns "".
GenRaw(valid, pixels) ==
  IF valid THEN RawData(TRUE, ndarray(<<pixels>>)) ELSE RawData(FALSE, PyInt(0))

UnitA == DataUnit(GenRaw(TRUE, "A"), MetaData("", "dir/image_A.jpg"))
UnitB == DataUnit(GenRaw(TRUE, "B"), MetaData("", "dir/image_B.jpg"))
UnitN == DataUnit(GenRaw(FALSE, "N"), MetaData("", "dir/image_N.jpg"))
Units == {UnitA, UnitB, UnitN}

RECURSIVE SeqsUpTo(_, _)
SeqsUpTo(S, n) ==
  IF n = 0 THEN {<<>>}
  ELSE LET shorter == SeqsUpTo(S, n - 1)
       IN shorter \cup {Append(s, e) : s \in {t \in shorter : Len(t) = n - 1}, e \in S}

\* the lists handed to FormatSet: units of different files (LoadDir makes one
\* unit per file of the directory), valid or not
UnitLists ==
  {d \in SeqsUpTo(Units, MaxUnits) : \A m, n \in 1..Len(d) : d[m] = d[n] => m = n}

\* ------------------------------------------------------------------------
\* StageConfig.py and Stage.py: the stages
\* ------------------------------------------------------------------------
RigidSegmentationGridConfig_RIGID_TYPE == 0
RigidSegmentationCustomConfig_RIGID_TYPE == 1

WhiteBalance == [kind |-> "WhiteBalance"]
ViewportAdjust == [kind |-> "ViewportAdjust"]
BinaryMask == [kind |-> "BinaryMask"]
Consolidation(stageNames, outChannelId) ==
  [kind |-> "Consolidation", stageNames |-> stageNames, outChannelId |-> outChannelId]
RigidSegmentationGrid(rows, cols) ==
  [kind |-> "RigidSegmentation", rigidType |-> RigidSegmentationGridConfig_RIGID_TYPE,
   rows |-> rows, cols |-> cols]
RigidSegmentationCustom(centers) ==
  [kind |-> "RigidSegmentation", rigidType |-> RigidSegmentationCustomConfig_RIGID_TYPE,
   centers |-> centers]
DBSCANSegmentation == [kind |-> "DBSCANSegmentation"]
PlantAnalysis(outfile) == [kind |-> "PlantAnalysis", outfile |-> outfile]

GetName(stage) == stage.kind

GetInterfaceIDs(stage) ==
  CASE stage.kind = "WhiteBalance" -> <<SingleImageChannelID, SingleImageChannelID>>
    [] stage.kind = "ViewportAdjust" -> <<SingleImageChannelID, SingleImageChannelID>>
    [] stage.kind = "BinaryMask" -> <<SingleImageChannelID, SingleImageChannelID>>
    [] stage.kind = "Consolidation" -> <<SnapshotChannelID, stage.outChannelId>>
    [] stage.kind = "RigidSegmentation" -> <<DoubleImageChannelID, SegmentationChannelID>>
    [] stage.kind = "DBSCANSegmentation" -> <<DoubleImageChannelID, SegmentationChannelID>>
    [] stage.kind = "PlantAnalysis" -> <<SegmentationChannelID, SnapshotChannelID>>

\* the stages a pipeline configuration is built from
ConsolidationStages ==
  { Consolidation(<<"Disk", "BinaryMask">>, DoubleImageChannelID),
    Consolidation(<<"WhiteBalance", "BinaryMask">>, SingleImageChannelID),
    Consolidation(<<"Consolidation", "Disk">>, DoubleImageChannelID),
    Consolidation(<<"Disk", "BinaryMask">>, SegmentationChannelID) }

StageSet ==
  {WhiteBalance, ViewportAdjust, BinaryMask, RigidSegmentationGrid(1, 2),
   DBSCANSegmentation, PlantAnalysis("data")} \cup ConsolidationStages

StageLists == SeqsUpTo(StageSet, MaxStages)

\* ------------------------------------------------------------------------
\* PlantCV (external): an image call appends its name to the pixel trace
\* of the image it is given, and fails on anything that is not an image
\* ------------------------------------------------------------------------
Pcv(call, img) ==
  IF IsArray(img) THEN Return(ndarray(Append(img.px, call))) ELSE Raise("PcvError")

RECURSIVE PcvChain(_, _)
PcvChain(calls, img) ==
  IF calls = <<>> THEN Return(img)
  ELSE LET o == Pcv(Head(calls), img)
       IN IF Returned(o) THEN PcvChain(Tail(calls), o.value) ELSE o

\* WhiteBalance.Invoke, ViewportAdjust.Invoke, BinaryMask.Invoke: read
\* inData.img, run the stage's PlantCV calls, package a SingleImageChannel
SingleImageInvoke(name, calls, inData) ==
  IF ~HasAttr(inData, "img") THEN Raise("AttributeError")
  ELSE LET o == PcvChain(calls, inData.img)
       IN IF Returned(o) THEN Return(<<name, SingleImageChannel(o.value)>>) ELSE o

WhiteBalanceInvoke(inData) ==
  SingleImageInvoke("WhiteBalance", <<"white_balance">>, inData)
ViewportAdjustInvoke(inData) ==
  SingleImageInvoke("ViewportAdjust", <<"rotate", "shift_img">>, inData)
BinaryMaskInvoke(inData) ==
  SingleImageInvoke("BinaryMask", <<"rgb2gray_lab", "threshold_binary", "fill">>, inData)

\* Consolidation.FindOutput: the first entry named stageName decides; its
\* image is entry[1].raw.rgb for "Disk" and entry[1].img otherwise; 0 when
\* no entry has the name.  (An entry is <<name, object>>: entry[0] of the
\* code is entry[1] here.)
RECURSIVE FindOutputFrom(_, _, _)
FindOutputFrom(stageName, formatted, j) ==
  IF j > Len(formatted) THEN Return(PyInt(0))
  ELSE LET entry == formatted[j]
       IN IF entry[1] = stageName
          THEN IF stageName = "Disk"
               THEN IF HasAttr(entry[2], "raw")
                    THEN Return(entry[2].raw.rgb) ELSE Raise("AttributeError")
               ELSE IF HasAttr(entry[2], "img")
                    THEN Return(entry[2].img) ELSE Raise("AttributeError")
          ELSE FindOutputFrom(stageName, formatted, j + 1)

FindOutput(stageName, formatted) == FindOutputFrom(stageName, formatted, 1)

\* the tag Consolidation.Invoke gives a DoubleImageChannel: the rgbFile of
\* the unit in the first entry of the history
SnapshotTag_Timestamp(formatted) == formatted[1][2].meta.timestamp  \* a slip
SnapshotTag(formatted) == formatted[1][2].meta.rgbFile

\* Consolidation.Invoke: a SingleImageChannel of stageNames[0], or a
\* DoubleImageChannel of stageNames[0] and stageNames[1] tagged with the
\* first entry's meta.rgbFile; any other outChannelId falls off the end of
\* the function, which returns None
ConsolidationInvoke(stage, inData) ==
  IF stage.outChannelId = SingleImageChannelID
  THEN IF Len(stage.stageNames) < 1 THEN Raise("IndexError")
       ELSE IF ~HasAttr(inData, "formatted") THEN Raise("AttributeError")
       ELSE LET f == FindOutput(stage.stageNames[1], inData.formatted)
            IN IF Returned(f)
               THEN Return(<<GetName(stage), SingleImageChannel(f.value)>>) ELSE f
  ELSE IF stage.outChannelId = DoubleImageChannelID
  THEN IF Len(stage.stageNames) < 1 THEN Raise("IndexError")
       ELSE IF ~HasAttr(inData, "formatted") THEN Raise("AttributeError")
       ELSE LET p == FindOutput(stage.stageNames[1], inData.formatted)
            IN IF ~Returned(p) THEN p
               ELSE IF Len(stage.stageNames) < 2 THEN Raise("IndexError")
               ELSE LET q == FindOutput(stage.stageNames[2], inData.formatted)
                    IN IF ~Returned(q) THEN q
                       ELSE IF Len(inData.formatted) < 1 THEN Raise("IndexError")
                       ELSE IF ~HasAttr(inData.formatted[1][2], "meta")
                            THEN Raise("AttributeError")
                       ELSE Return(<<GetName(stage),
                                     DoubleImageChannel(p.value, q.value,
                                        SnapshotTag(inData.formatted))>>)
  ELSE Return(None)

\* RigidSegmentation.Invoke.  pcv.roi.multi makes rows*cols ROIs for a grid
\* and one ROI per center for a custom layout; covered[i] says whether
\* pcv.roi_objects reports a positive area for ROI i.  An uncovered ROI
\* gets the empty list ([]) for its contour and for its mask.
NumROIs(cfg) ==
  IF cfg.rigidType = RigidSegmentationGridConfig_RIGID_TYPE
  THEN cfg.rows * cfg.cols ELSE Len(cfg.centers)

Contour(img, i) == [cls |-> "contour", of |-> img.px, at |-> i]
Mask(img, i) == [cls |-> "mask", of |-> img.px, at |-> i]

\* what the loop appends for a ROI without a reading: the empty list
NoReading_Omitted(list) == list            \* a slip: continue without append
NoReading(list) == Append(list, <<>>)

\* the loop over the ROIs from ROI i on: <<oContours, oMasks>> at its end
RECURSIVE RigidLoop(_, _, _, _, _, _)
RigidLoop(R, img, covered, i, oContours, oMasks) ==
  IF i > R THEN <<oContours, oMasks>>
  ELSE IF ~covered[i]
       THEN RigidLoop(R, img, covered, i + 1, NoReading(oContours), NoReading(oMasks))
       ELSE RigidLoop(R, img, covered, i + 1,
                      Append(oContours, Contour(img, i)), Append(oMasks, Mask(img, i)))

RigidSegmentationInvoke(stage, inData, covered) ==
  IF ~HasAttr(inData, "imgPrimary") THEN Raise("AttributeError")
  ELSE IF ~(IsArray(inData.imgPrimary) /\ IsArray(inData.imgSecondary))
       THEN Raise("PcvError")
  ELSE LET lists == RigidLoop(NumROIs(stage), inData.imgPrimary, covered, 1, <<>>, <<>>)
       IN Return(<<GetName(stage),
                   SegmentationChannel(lists[1], lists[2], inData.imgPrimary, inData.tag)>>)

\* A cluster mask is a region together with what pcv.spatial_clustering
\* reports when it is handed that mask: one cluster (the mask is stable, the
\* cluster being the region itself), or a list of other than one cluster
\* masks.  The clusters of an image's mask are the regions <<1>>, <<2>>, ...
StableMask(region) == [cls |-> "mask", region |-> region, sub |-> <<region>>]
SplitMask(region, parts) == [cls |-> "mask", region |-> region, sub |-> parts]
SpatialClustering(mask) == mask.sub

\* the cluster masks of a region that are stable after at most d rounds of
\* clustering: stable, split in two, or split into no cluster at all
RECURSIVE ClusterMasks(_, _)
ClusterMasks(region, d) ==
  {StableMask(region)} \cup
  (IF d > 1
   THEN {SplitMask(region, <<>>)} \cup
        {SplitMask(region, <<a, b>>) :
           <<a, b>> \in ClusterMasks(region \o <<1>>, d - 1)
                        \X ClusterMasks(region \o <<2>>, d - 1)}
   ELSE {})

\* extractSubMasks, nested in DBSCANSegmentation.Invoke: its parameters, and
\* the keywords its recursive call passes
extractSubMasks_params == {"topLvlMask", "masks"}
extractSubMasks_keywords == {"topLevelMsk", "masks"}

\* the loop of extractSubMasks(topLvlMask, masks) from mask j on.  A call by
\* keywords that are not the parameters raises TypeError before the body runs.
RECURSIVE extractSubMasksFrom(_, _, _)
extractSubMasksFrom(topLvlMask, j, masks) ==
  IF j > Len(topLvlMask) THEN Return(masks)
  ELSE LET mask == topLvlMask[j]
           sbMsks == SpatialClustering(mask)
       IN IF Len(sbMsks) = 1
          THEN extractSubMasksFrom(topLvlMask, j + 1, Append(masks, mask))
          ELSE LET sub == IF extractSubMasks_keywords = extractSubMasks_params
                          THEN extractSubMasksFrom(sbMsks, 1, <<>>)
                          ELSE Raise("TypeError")
               IN IF ~Returned(sub) THEN sub
                  ELSE extractSubMasksFrom(topLvlMask, j + 1, masks \o sub.value)

extractSubMasks(topLvlMask, masks) == extractSubMasksFrom(topLvlMask, 1, masks)

\* pcv.roi.from_binary_image
FromBinaryImage(img, mask) == [cls |-> "contour", of |-> img.px, mask |-> mask]

\* DBSCANSegmentation.Invoke: the masks are the clusters cMsks that
\* pcv.spatial_clustering reports of imgSecondary, the contours those of
\* pcv.roi.from_binary_image for each mask; extractSubMasks is not called
DBSCANSegmentationInvoke(stage, inData, cMsks) ==
  IF ~HasAttr(inData, "imgSecondary") THEN Raise("AttributeError")
  ELSE IF ~IsArray(inData.imgSecondary) THEN Raise("PcvError")
  ELSE IF Len(cMsks) > 0 /\ ~IsArray(inData.imgPrimary) THEN Raise("PcvError")
  ELSE LET retMsks == cMsks
           retCnts == [j \in 1..Len(cMsks) |-> FromBinaryImage(inData.imgPrimary, cMsks[j])]
       IN Return(<<GetName(stage),
                   SegmentationChannel(retCnts, retMsks, inData.imgPrimary, inData.tag)>>)

\* PlantAnalysis.Invoke: analyses every mask under label i, saves the
\* results to a file named after the tag and returns an empty Snapshot
PlantAnalysisInvoke(stage, inData) ==
  IF ~HasAttr(inData, "masks") THEN Raise("AttributeError")
  ELSE Return(<<GetName(stage), SnapshotChannel(<<>>)>>)

\* pcv.outputs.observations after PlantAnalysis.Invoke: analyze_object
\* stores its observations under label i (label i-1 of the code is index i
\* here), over what an earlier call left there; nothing clears the rest
ObservationsAfter(observations, inData) ==
  LET n == Len(inData.masks)
      m == IF Len(observations) > n THEN Len(observations) ELSE n
  IN [j \in 1..m |-> IF j <= n THEN <<inData.rgb, inData.contours[j], inData.masks[j]>>
                              ELSE observations[j]]

\* the file PlantAnalysis.Invoke saves to: outfile, "_", the part of the
\* tag after "image_" without directory and extension, ".csv"
TagStem(tag) ==
  CASE tag = "dir/image_A.jpg" -> "A"
    [] tag = "dir/image_B.jpg" -> "B"
    [] tag = "dir/image_N.jpg" -> "N"

OutputFile(outfile, tag) == <<outfile, "_", TagStem(tag), ".csv">>

\* what PlantCV reports for a stage's input (drawn by the caller)
PcvOutcomes(stage) ==
  CASE stage.kind = "RigidSegmentation" -> [1..NumROIs(stage) -> BOOLEAN]
    [] stage.kind = "DBSCANSegmentation" ->
         {[j \in 1..n |-> StableMask(<<j>>)] : n \in 0..MaxClusters}
    [] OTHER -> {0}

\* stage.Invoke(inData), dispatched on the stage's class
Invoke(stage, inData, ext) ==
  CASE stage.kind = "WhiteBalance" -> WhiteBalanceInvoke(inData)
    [] stage.kind = "ViewportAdjust" -> ViewportAdjustInvoke(inData)
    [] stage.kind = "BinaryMask" -> BinaryMaskInvoke(inData)
    [] stage.kind = "Consolidation" -> ConsolidationInvoke(stage, inData)
    [] stage.kind = "RigidSegmentation" -> RigidSegmentationInvoke(stage, inData, ext)
    [] stage.kind = "DBSCANSegmentation" -> DBSCANSegmentationInvoke(stage, inData, ext)
    [] stage.kind = "PlantAnalysis" -> PlantAnalysisInvoke(stage, inData)

\* ------------------------------------------------------------------------
\* Pipeline.py
\* ------------------------------------------------------------------------
PipelineConfig(options, stageList) ==
  [cls |-> "PipelineConfig", options |-> options, stages |-> stageList]

\* a slip in the pair test: the current stage's input ID is compared
PairIncompatible_InputId(cIds, nIds) ==
  nIds[1] # SnapshotChannelID /\ cIds[1] # nIds[1]

\* the test of one pair in IsCompatible: nIds[0] is not the Snapshot ID
\* and cIds[1] differs from nIds[0] (index 0, 1 of the code is 1, 2 here)
PairIncompatible(cIds, nIds) ==
  nIds[1] # SnapshotChannelID /\ cIds[2] # nIds[1]

\* the loop of IsCompatible from index i on, cIds being the current
\* stage's interface IDs
RECURSIVE IsCompatibleFrom(_, _, _)
IsCompatibleFrom(stageList, i, cIds) ==
  IF i > Len(stageList) THEN TRUE
  ELSE LET nIds == GetInterfaceIDs(stageList[i])
       IN IF PairIncompatible(cIds, nIds) THEN FALSE
          ELSE IsCompatibleFrom(stageList, i + 1, GetInterfaceIDs(stageList[i]))

\* Pipeline.IsCompatible: stages[0] of an empty list raises IndexError
IsCompatible(stageList) ==
  IF Len(stageList) = 0 THEN Raise("IndexError")
  ELSE Return(IsCompatibleFrom(stageList, 2, GetInterfaceIDs(stageList[1])))

VARIABLES
  stages,        \* the stage list of the PipelineConfig given to Pipeline(cfg)
  pc,            \* where the program is: "new", "ready", "FormatSet", "Format",
                 \* "returned", "exited" (exit(2)), "raised" (uncaught exception)
  cfg,           \* self.cfg of the Pipeline (None until __init__ assigns it)
  validations,   \* number of calls of IsCompatible so far
  data,          \* the list given to FormatSet
  i,             \* FormatSet: number of units taken from data
  done,          \* FormatSet: the results collected so far
  inData,        \* Format: the running channel
  intmed,        \* Format: the history of named outputs
  k,             \* Format: index of the next stage of self.cfg.stages
  invoked,       \* every call of a stage's Invoke: unit index, stage index, input
  err,           \* the exception that ended the program ("" while none)
  observations,  \* pcv.outputs.observations
  saved,         \* the result files written by pcv.outputs.save_results
  direct         \* a function called on its own, outside a pipeline run: its
                 \* name, its arguments and its outcome (None while there is none)

vars == <<stages, pc, cfg, validations, data, i, done, inData, intmed, k,
          invoked, err, observations, saved, direct>>

Init ==
  /\ stages \in StageLists
  /\ pc = "new"
  /\ cfg = None
  /\ validations = 0
  /\ data = <<>>
  /\ i = 0
  /\ done = <<>>
  /\ inData = None
  /\ intmed = <<>>
  /\ k = 0
  /\ invoked = <<>>
  /\ err = ""
  /\ observations = <<>>
  /\ saved = <<>>
  /\ direct = None

\* a slip in __init__: the configuration is kept whatever IsCompatible says
Construct_NoAbort ==
  /\ pc = "new"
  /\ validations' = validations + 1
  /\ pc' = "ready"
  /\ cfg' = PipelineConfig("Options", stages)
  /\ UNCHANGED <<stages, data, i, done, inData, intmed, k, invoked, err,
                 observations, saved, direct>>

\* Pipeline.__init__: exit(2) when IsCompatible says no, else self.cfg = cfg
Construct ==
  /\ pc = "new"
  /\ LET c == IsCompatible(stages)
     IN /\ validations' = validations + 1
        /\ IF ~Returned(c)
           THEN pc' = "raised" /\ err' = c.exc /\ cfg' = cfg
           ELSE IF ~c.value
           THEN pc' = "exited" /\ err' = "SystemExit(2)" /\ cfg' = cfg
           ELSE pc' = "ready" /\ err' = err /\ cfg' = PipelineConfig("Options", stages)
  /\ UNCHANGED <<stages, data, i, done, inData, intmed, k, invoked, observations,
                 saved, direct>>

\* Pipeline.FormatSet is called with a list of units: done = [], i = 0
FormatSet ==
  /\ pc = "ready"
  /\ \E d \in UnitLists : data' = d
  /\ i' = 0
  /\ done' = <<>>
  /\ pc' = "FormatSet"
  /\ UNCHANGED <<stages, cfg, validations, inData, intmed, k, invoked, err,
                 observations, saved, direct>>

\* Format: the test that short-circuits, the first channel, the first
\* history and intmed.append(out)
SkipsUnit_Never(unit) == FALSE             \* a slip: the test left out
SkipsUnit(unit) == ~unit.raw.valid
InitialChannel(unit) == SingleImageChannel(unit.raw.rgb)
InitialHistory(unit) == << <<"Disk", unit>> >>
HistoryAppend_Front(history, out) == <<out>> \o history   \* a slip: insert(0, out)
HistoryAppend(history, out) == Append(history, out)

\* FormatSet takes the next unit and calls Format, which returns 0 for a
\* unit that is not valid (FormatSet appends the 0) and otherwise sets up
\* inData and intmed
FormatCall ==
  /\ pc = "FormatSet"
  /\ i < Len(data)
  /\ i' = i + 1
  /\ LET unit == data[i + 1]
     IN IF SkipsUnit(unit)
        THEN /\ done' = Append(done, PyInt(0))
             /\ UNCHANGED <<pc, inData, intmed, k>>
        ELSE /\ inData' = InitialChannel(unit)
             /\ intmed' = InitialHistory(unit)
             /\ k' = 1
             /\ pc' = "Format"
             /\ done' = done
  /\ UNCHANGED <<stages, cfg, validations, data, invoked, err, observations, saved,
                 direct>>

\* the channel a stage is invoked with: a Snapshot of the history for a
\* stage that declares Snapshot input, else the running channel
StageInput_Running(stage, running, history) == running  \* a slip: no Snapshot
StageInput(stage, running, history) ==
  IF GetInterfaceIDs(stage)[1] = SnapshotChannelID
  THEN SnapshotChannel(history) ELSE running

\* the loop of Format goes on to the next stage, and out[1] becomes the
\* running channel
NextStage_Skip(n) == n + 2                 \* a slip: a stage is passed over
NextStage(n) == n + 1
NextChannel_Kept(running, out) == running  \* a slip: inData is not updated
NextChannel(running, out) == out[2]

\* the end of PlantAnalysis.Invoke: the timestamp column, one value for
\* each of the 18 rows of each mask, is assigned to the rows read back from
\* the saved file, which pandas refuses with a ValueError when the lengths
\* differ; rows holds one entry per label, for its 18 rows
Timestamped(stage, paInput, rows) ==
  IF Len(rows) # Len(paInput.masks) THEN Raise("ValueError")
  ELSE Return(<<GetName(stage), SnapshotChannel(<<>>)>>)

\* one turn of the loop of Format: invoke the stage, append what it
\* returns, make out[1] the running channel.  A stage that raises ends the
\* program; so does out[1] of a None.  PlantAnalysis saves the observations
\* of pcv.outputs before it stamps the file and writes it again.
FormatStage ==
  /\ pc = "Format"
  /\ k <= Len(cfg.stages)
  /\ LET stage == cfg.stages[k]
         in == StageInput(stage, inData, intmed)
     IN \E ext \in PcvOutcomes(stage) :
          LET called == Invoke(stage, in, ext)
              saves == stage.kind = "PlantAnalysis" /\ Returned(called)
              rows == IF saves THEN ObservationsAfter(observations, in)
                      ELSE observations
              out == IF saves THEN Timestamped(stage, in, rows) ELSE called
          IN /\ invoked' = Append(invoked, [unit |-> i, stage |-> k, inData |-> in])
             /\ observations' = rows
             /\ saved' = IF saves
                         THEN Append(saved, [file |-> OutputFile(stage.outfile, in.tag),
                                             rows |-> rows,
                                             stamped |-> Returned(out)])
                         ELSE saved
             /\ IF ~Returned(out)
                THEN /\ pc' = "raised" /\ err' = out.exc
                     /\ inData' = in
                     /\ UNCHANGED <<intmed, k>>
                ELSE /\ intmed' = HistoryAppend(intmed, out.value)
                     /\ IF out.value = None
                        THEN /\ pc' = "raised" /\ err' = "TypeError"
                             /\ inData' = in
                             /\ UNCHANGED k
                        ELSE /\ inData' = NextChannel(in, out.value)
                             /\ k' = NextStage(k)
                             /\ UNCHANGED <<pc, err>>
  /\ UNCHANGED <<stages, cfg, validations, data, i, done, direct>>

\* what Format returns
FormatResult_NoDisk(unit, history) == FormattedData(unit.raw, Tail(history))  \* a slip
FormatResult(unit, history) == FormattedData(unit.raw, history)

\* a slip: the loop of Format has taken its stages off self.cfg.stages
FormatReturn_StagesConsumed ==
  /\ pc = "Format"
  /\ k > Len(cfg.stages)
  /\ done' = Append(done, FormatResult(data[i], intmed))
  /\ pc' = "FormatSet"
  /\ inData' = None
  /\ intmed' = <<>>
  /\ k' = 0
  /\ cfg' = [cfg EXCEPT !.stages = <<>>]
  /\ UNCHANGED <<stages, validations, data, i, invoked, err, observations,
                 saved, direct>>

\* Format returns FormattedData(base=data.raw, proc=intmed) and FormatSet
\* appends it to done
FormatReturn ==
  /\ pc = "Format"
  /\ k > Len(cfg.stages)
  /\ done' = Append(done, FormatResult(data[i], intmed))
  /\ pc' = "FormatSet"
  /\ inData' = None
  /\ intmed' = <<>>
  /\ k' = 0
  /\ UNCHANGED <<stages, cfg, validations, data, i, invoked, err, observations,
                 saved, direct>>

\* a slip: FormatSet swallows the exception of Format and returns done
FormatSetReturn_AfterFailure ==
  /\ pc \in {"FormatSet", "raised"}
  /\ i = Len(data)
  /\ pc' = "returned"
  /\ UNCHANGED <<stages, cfg, validations, data, i, done, inData, intmed, k,
                 invoked, err, observations, saved, direct>>

\* FormatSet returns done
FormatSetReturn ==
  /\ pc = "FormatSet"
  /\ i = Len(data)
  /\ pc' = "returned"
  /\ UNCHANGED <<stages, cfg, validations, data, i, done, inData, intmed, k,
                 invoked, err, observations, saved, direct>>

Next ==
  \/ Construct
  \/ FormatSet
  \/ FormatCall
  \/ FormatStage
  \/ FormatReturn
  \/ FormatSetReturn

Spec == Init /\ [][Next]_vars

\* ------------------------------------------------------------------------
\* Functions called on their own: the call is drawn, then it is made
\* ------------------------------------------------------------------------
pipelineVars == <<stages, pc, cfg, validations, data, i, done, inData, intmed, k,
                  invoked, err, observations, saved>>

\* no Pipeline is constructed
NoPipeline ==
  /\ stages = <<>>
  /\ pc = "call"
  /\ cfg = None
  /\ validations = 0
  /\ data = <<>>
  /\ i = 0
  /\ done = <<>>
  /\ inData = None
  /\ intmed = <<>>
  /\ k = 0
  /\ invoked = <<>>
  /\ err = ""
  /\ observations = <<>>
  /\ saved = <<>>

Call(fn, args) == [cls |-> "call", fn |-> fn, args |-> args, out |-> None]

\* the DoubleImageChannel Consolidation makes of a unit and its mask
DoubleImageOf(unit) ==
  DoubleImageChannel(unit.raw.rgb, BinaryMaskInvoke(InitialChannel(unit)).value[2].img,
                     unit.meta.rgbFile)

\* RigidSegmentation stages: grids of 1x2 and 2x2 ROIs, a custom layout of
\* three centers
RigidStages ==
  {RigidSegmentationGrid(1, 2), RigidSegmentationGrid(2, 2),
   RigidSegmentationCustom(<<"c1", "c2", "c3">>)}

RigidCalls ==
  {Call("RigidSegmentation.Invoke", [stage |-> st, inData |-> DoubleImageOf(u), covered |-> c]) :
     <<st, u, c>> \in UNION {{st} \X {UnitA, UnitB} \X [1..NumROIs(st) -> BOOLEAN] :
                               st \in RigidStages}}

InvokeRigid ==
  /\ direct.fn = "RigidSegmentation.Invoke"
  /\ direct.out = None
  /\ direct' = [direct EXCEPT !.out = RigidSegmentationInvoke(direct.args.stage,
                                         direct.args.inData, direct.args.covered)]
  /\ UNCHANGED pipelineVars

\* what pcv.spatial_clustering may report of an image's mask: no cluster,
\* one or two, each stable after at most MaxDepth rounds
TopLevelMasks ==
  {<<>>} \cup {<<a>> : a \in ClusterMasks(<<1>>, MaxDepth)}
         \cup (ClusterMasks(<<1>>, MaxDepth) \X ClusterMasks(<<2>>, MaxDepth))

ExtractCalls ==
  {Call("extractSubMasks", [topLvlMask |-> t]) : t \in TopLevelMasks}

CallExtractSubMasks ==
  /\ direct.fn = "extractSubMasks"
  /\ direct.out = None
  /\ direct' = [direct EXCEPT !.out = extractSubMasks(direct.args.topLvlMask, <<>>)]
  /\ UNCHANGED pipelineVars

DBSCANCalls ==
  {Call("DBSCANSegmentation.Invoke",
        [stage |-> DBSCANSegmentation, inData |-> DoubleImageOf(UnitA), cMsks |-> t]) :
     t \in TopLevelMasks}

InvokeDBSCAN ==
  /\ direct.fn = "DBSCANSegmentation.Invoke"
  /\ direct.out = None
  /\ direct' = [direct EXCEPT !.out = DBSCANSegmentationInvoke(direct.args.stage,
                                         direct.args.inData, direct.args.cMsks)]
  /\ UNCHANGED pipelineVars

CallInit ==
  /\ NoPipeline
  /\ direct \in RigidCalls \cup ExtractCalls \cup DBSCANCalls

CallNext ==
  \/ InvokeRigid
  \/ CallExtractSubMasks
  \/ InvokeDBSCAN

CallSpec == CallInit /\ [][CallNext]_vars

\* ------------------------------------------------------------------------
\* StageChannel.py is imported by one run of the program, then by another:
\* each class statement draws its CHANNEL_ID with getrandbits
\* ------------------------------------------------------------------------
getrandbits == 0..MaxId

ChannelClasses ==
  {"SingleImageChannel", "DoubleImageChannel", "SnapshotChannel", "SegmentationChannel"}

\* the CHANNEL_IDs the class statements of StageChannel.py may draw
ChannelIdDraws == [ChannelClasses -> getrandbits]

\* direct.args holds the CHANNEL_IDs of the run before, direct.out those of
\* the run that has just imported the module
ImportStageChannel ==
  /\ direct.fn = "import StageChannel"
  /\ direct.args = <<>>
  /\ \E ids \in ChannelIdDraws :
       direct' = [direct EXCEPT !.out = Return(ids),
                                !.args = IF direct.out = None THEN <<>>
                                         ELSE <<direct.out.value>>]
  /\ UNCHANGED pipelineVars

ImportInit ==
  /\ NoPipeline
  /\ direct = Call("import StageChannel", <<>>)

ImportNext ==
  \/ ImportStageChannel

ImportSpec == ImportInit /\ [][ImportNext]_vars

\* ------------------------------------------------------------------------
\* Properties
\* ------------------------------------------------------------------------
\* the pair (s[j], s[j+1]) as the specification states it
PairOk(s, j) ==
  \/ GetInterfaceIDs(s[j + 1])[1] = SnapshotChannelID
  \/ GetInterfaceIDs(s[j])[2] = GetInterfaceIDs(s[j + 1])[1]

EveryPairOk(s) == \A j \in 1..(Len(s) - 1) : PairOk(s, j)

\* C1: for a non-empty stage list IsCompatible returns true exactly when
\* every consecutive pair has a Snapshot input or matching output/input
\* IDs (so a single stage is accepted and one failing pair anywhere makes
\* it false); the constructor assigns self.cfg exactly in that case.
C1_IsCompatibleIffEveryPairOk ==
  Len(stages) > 0 =>
    /\ IsCompatible(stages) = Return(EveryPairOk(stages))
    /\ (Len(stages) = 1 => IsCompatible(stages) = Return(TRUE))
    /\ (validations = 1 => ((cfg # None) <=> EveryPairOk(stages)))
    /\ (validations = 1 => ((pc = "exited") <=> ~EveryPairOk(stages)))

\* a three-stage list rejected for its last pair alone
C1_Witness ==
  /\ pc = "exited"
  /\ Len(stages) = 3
  /\ PairOk(stages, 1)
  /\ ~PairOk(stages, 2)

\* C2: a unit whose raw.valid is false has no stage invoked for it, and
\* what Format returns for it is the int 0, which is no FormattedData.
C2_InvalidUnitInvokesNoStage ==
  /\ \A n \in 1..Len(invoked) : data[invoked[n].unit].raw.valid
  /\ \A j \in 1..Len(done) :
       ~data[j].raw.valid => (done[j] = PyInt(0) /\ done[j].cls # "FormattedData")

\* an invalid unit went through a pipeline that has stages
C2_Witness ==
  /\ pc = "returned"
  /\ Len(cfg.stages) > 0
  /\ \E j \in 1..Len(data) : ~data[j].raw.valid /\ done[j] = PyInt(0)

ValidUnits(d) == SelectSeq(d, LAMBDA u : u.raw.valid)

\* C3: FormatSet returns one FormattedData per valid unit, in the order of
\* the valid units, and nothing for an invalid unit.
C3_FormatSetOmitsInvalidUnits ==
  pc = "returned" =>
    /\ Len(done) = Len(ValidUnits(data))
    /\ \A j \in 1..Len(done) :
         /\ done[j].cls = "FormattedData"
         /\ done[j].base = ValidUnits(data)[j].raw

\* C4: a stage is invoked, and Format or FormatSet runs, only on a
\* pipeline whose stage list IsCompatible accepted; a rejected list ends
\* the program with self.cfg unassigned and no stage invoked; IsCompatible
\* runs once, in the constructor, and invokes nothing.
C4_NoStageRunsUnvalidated ==
  /\ (invoked # <<>> \/ pc \in {"FormatSet", "Format", "returned"}) =>
       (cfg # None /\ IsCompatible(stages) = Return(TRUE) /\ validations = 1)
  /\ pc \in {"exited", "new"} => (cfg = None /\ invoked = <<>>)
  /\ pc = "ready" => invoked = <<>>
  /\ validations <= 1
  /\ pc # "new" => validations = 1

\* a list with an incompatible pair was rejected by exit(2)
C4_Witness ==
  /\ pc = "exited"
  /\ err = "SystemExit(2)"
  /\ Len(stages) >= 2
  /\ cfg = None

\* C5: an empty stage list is rejected as an incompatible configuration:
\* IsCompatible returns false and the constructor exits as for a failed
\* pair.
C5_EmptyListRejectedAsIncompatible ==
  (Len(stages) = 0 /\ validations = 1) =>
    (IsCompatible(stages) = Return(FALSE) /\ pc = "exited")

\* C6: in an accepted pipeline every stage is invoked with a channel of
\* its declared input class and returns a channel of its declared output
\* class.
C6_StagesSeeDeclaredChannels ==
  /\ \A n \in 1..Len(invoked) :
       ChannelIdOf(invoked[n].inData)
         = GetInterfaceIDs(cfg.stages[invoked[n].stage])[1]
  /\ \A j \in 2..Len(intmed) :
       /\ intmed[j] # None
       /\ ChannelIdOf(intmed[j][2]) = GetInterfaceIDs(cfg.stages[j - 1])[2]

\* C7: the first history entry is ("Disk", the unit), so the image it
\* exposes is the unit's raw image, in every state of a run and in every
\* FormattedData returned.
C7_DiskEntryStaysFirst ==
  /\ intmed # <<>> =>
       /\ intmed[1] = <<"Disk", data[i]>>
       /\ FindOutput("Disk", intmed) = Return(data[i].raw.rgb)
  /\ \A j \in 1..Len(done) :
       done[j].cls = "FormattedData" =>
         /\ done[j].proc[1] = <<"Disk", data[j]>>
         /\ FindOutput("Disk", done[j].proc) = Return(data[j].raw.rgb)

\* a returned FormattedData with the outputs of two stages behind "Disk"
C7_Witness ==
  /\ pc = "returned"
  /\ \E j \in 1..Len(done) :
       /\ done[j].cls = "FormattedData"
       /\ Len(done[j].proc) >= 3
       /\ done[j].proc[1][1] = "Disk"

\* the names a Consolidation looks up, and the invocations of one
RequestedNames(stage) ==
  IF stage.outChannelId = SingleImageChannelID THEN {stage.stageNames[1]}
  ELSE IF stage.outChannelId = DoubleImageChannelID
       THEN {stage.stageNames[1], stage.stageNames[2]}
  ELSE {}

ConsolidationCalls ==
  {n \in 1..Len(invoked) : cfg.stages[invoked[n].stage].kind = "Consolidation"}

NameAbsent(name, h) == \A j \in 1..Len(h) : h[j][1] # name

FirstNamed(name, h) ==
  h[CHOOSE j \in 1..Len(h) : h[j][1] = name /\ \A m \in 1..(j - 1) : h[m][1] # name]

\* the primary image field of a history entry
PrimaryImage(entry) ==
  CASE entry[1] = "Disk" -> entry[2].raw.rgb
    [] entry[2].cls = "SingleImageChannel" -> entry[2].img
    [] entry[2].cls = "DoubleImageChannel" -> entry[2].imgPrimary
    [] entry[2].cls = "SegmentationChannel" -> entry[2].rgb

HasPrimaryImage(entry) ==
  \/ entry[1] = "Disk"
  \/ entry[2].cls \in {"SingleImageChannel", "DoubleImageChannel", "SegmentationChannel"}

\* C8: a Consolidation that asks for a name the history does not hold
\* reports a failure: FindOutput does not return 0 and Invoke returns no
\* channel.
C8_AbsentNameIsLookupFailure ==
  \A n \in ConsolidationCalls :
    LET stage == cfg.stages[invoked[n].stage]
        h == invoked[n].inData.formatted
    IN \A name \in RequestedNames(stage) :
         NameAbsent(name, h) =>
           /\ FindOutput(name, h) # Return(PyInt(0))
           /\ ~Returned(ConsolidationInvoke(stage, invoked[n].inData))

\* C9: FindOutput returns the primary image of the first entry with the
\* requested name: the raw image for "Disk", else img, imgPrimary or rgb
\* according to the entry's channel class.
C9_FindOutputFirstMatchPrimaryImage ==
  \A n \in ConsolidationCalls :
    LET stage == cfg.stages[invoked[n].stage]
        h == invoked[n].inData.formatted
    IN \A name \in RequestedNames(stage) :
         (~NameAbsent(name, h) /\ HasPrimaryImage(FirstNamed(name, h))) =>
           FindOutput(name, h) = Return(PrimaryImage(FirstNamed(name, h)))

\* C10: a Consolidation of [a, b] into a DoubleImage, on a history holding
\* both names, returns the DoubleImage of a's image, b's image and the
\* rgbFile of the unit in the first entry.
C10_DoubleImageOfNamedEntries ==
  \A n \in ConsolidationCalls :
    LET stage == cfg.stages[invoked[n].stage]
        h == invoked[n].inData.formatted
    IN (/\ stage.outChannelId = DoubleImageChannelID
        /\ Len(stage.stageNames) = 2
        /\ \A name \in RequestedNames(stage) :
             ~NameAbsent(name, h) /\ HasPrimaryImage(FirstNamed(name, h))) =>
         ConsolidationInvoke(stage, invoked[n].inData)
           = Return(<<"Consolidation",
                      DoubleImageChannel(PrimaryImage(FirstNamed(stage.stageNames[1], h)),
                                         PrimaryImage(FirstNamed(stage.stageNames[2], h)),
                                         h[1][2].meta.rgbFile)>>)
\* ------------------------------------------------------------------------
\* C11: RigidSegmentation.Invoke on R ROIs returns a Segmentation of exactly
\* R contours and R masks; position i holds the contour and the mask of ROI
\* i, or the empty list for both when ROI i is not covered
\* ------------------------------------------------------------------------
RigidCalled == direct.fn = "RigidSegmentation.Invoke" /\ direct.out # None

C11_RigidKeepsPositions ==
  RigidCalled =>
    /\ Returned(direct.out)
    /\ LET a == direct.args
           R == NumROIs(a.stage)
           seg == direct.out.value[2]
       IN /\ seg.cls = "SegmentationChannel"
          /\ Len(seg.contours) = R
          /\ Len(seg.masks) = R
          /\ \A n \in 1..R :
               IF a.covered[n]
               THEN /\ seg.contours[n] = Contour(a.inData.imgPrimary, n)
                    /\ seg.masks[n] = Mask(a.inData.imgPrimary, n)
               ELSE /\ seg.contours[n] = <<>>
                    /\ seg.masks[n] = <<>>

\* a 2x2 grid with objects in three cells: four positions, one of them empty
C11_Witness ==
  /\ RigidCalled
  /\ direct.args.stage = RigidSegmentationGrid(2, 2)
  /\ Cardinality({n \in 1..4 : direct.args.covered[n]}) = 3
  /\ Len(direct.out.value[2].masks) = 4
  /\ Cardinality({n \in 1..4 : direct.out.value[2].masks[n] = <<>>}) = 1

\* ------------------------------------------------------------------------
\* C13: every DoubleImage and every Segmentation channel in the history of
\* a unit's run carries that unit's rgbFile as its tag, and what
\* RigidSegmentation and DBSCANSegmentation return carries the tag of the
\* channel they were invoked with
\* ------------------------------------------------------------------------
\* the history of the run of unit u: intmed while Format runs (or has
\* raised), proc of what Format returned afterwards
HistoryOf(u) ==
  IF u = i /\ pc \in {"Format", "raised"} THEN intmed
  ELSE IF u <= Len(done) /\ done[u].cls = "FormattedData" THEN done[u].proc
  ELSE <<>>

Tagged(ch) == ch.cls \in {"DoubleImageChannel", "SegmentationChannel"}

C13_TagIsSourcePath ==
  /\ \A u \in 1..i : \A j \in 1..Len(HistoryOf(u)) :
       LET e == HistoryOf(u)[j]
       IN (e # None /\ Tagged(e[2])) => e[2].tag = data[u].meta.rgbFile
  /\ \A n \in 1..Len(invoked) :
       LET c == invoked[n]
           h == HistoryOf(c.unit)
       IN (/\ cfg.stages[c.stage].kind \in {"RigidSegmentation", "DBSCANSegmentation"}
           /\ Len(h) > c.stage)
          => h[c.stage + 1][2].tag = c.inData.tag

\* the second unit's run has returned with a Segmentation in its history
C13_Witness ==
  /\ Len(done) = 2
  /\ done[2].cls = "FormattedData"
  /\ data[1] # data[2]
  /\ \E j \in 1..Len(done[2].proc) :
       /\ done[2].proc[j][2].cls = "SegmentationChannel"
       /\ done[2].proc[j][2].tag = data[2].meta.rgbFile

\* ------------------------------------------------------------------------
\* C14: what FormatSet does for a unit depends on that unit and the
\* configuration only, not on the units before it: Format starts from a
\* fresh history, and the file PlantAnalysis saves for a unit holds what
\* it would hold had the unit been the first
\* ------------------------------------------------------------------------
Saves(c) == cfg.stages[c.stage].kind = "PlantAnalysis" /\ HasAttr(c.inData, "masks")
SavingCalls == SelectSeq(invoked, Saves)

C14_UnitsAreIndependent ==
  /\ pc = "Format" => (intmed[1] = <<"Disk", data[i]>> /\ Len(intmed) = k)
  /\ Len(saved) = Len(SavingCalls)
  /\ \A m \in 1..Len(saved) :
       /\ saved[m].rows = ObservationsAfter(<<>>, SavingCalls[m].inData)
       /\ saved[m].stamped

\* ------------------------------------------------------------------------
\* C12: extractSubMasks returns normally for every list of masks that are
\* stable after one, two or three rounds of clustering
\* ------------------------------------------------------------------------
\* the rounds of clustering until every cluster of the mask is stable (0
\* when some part of it splits into no cluster and so never is)
RECURSIVE StableDepth(_)
StableDepth(mask) ==
  IF Len(mask.sub) = 1 THEN 1
  ELSE IF mask.sub = <<>> \/ \E n \in 1..Len(mask.sub) : StableDepth(mask.sub[n]) = 0
       THEN 0
  ELSE LET depths == {StableDepth(mask.sub[n]) : n \in 1..Len(mask.sub)}
       IN 1 + CHOOSE d \in depths : \A e \in depths : e <= d

ExtractCalled == direct.fn = "extractSubMasks" /\ direct.out # None

Stabilizes(topLvlMask) ==
  \A n \in 1..Len(topLvlMask) : StableDepth(topLvlMask[n]) \in 1..3

C12_ExtractSubMasksReturns ==
  (ExtractCalled /\ Stabilizes(direct.args.topLvlMask)) => Returned(direct.out)

\* the part of C12 the code keeps: masks that are stable at once are returned
C12_Depth1Returns ==
  (ExtractCalled /\ \A n \in 1..Len(direct.args.topLvlMask) :
                       StableDepth(direct.args.topLvlMask[n]) = 1)
    => direct.out = Return(direct.args.topLvlMask)

\* ------------------------------------------------------------------------
\* C15: the masks DBSCANSegmentation.Invoke emits are the stable leaves of
\* the refinement, flattened in order: a stable top-level mask itself, the
\* leaves below any other; there is one contour per mask, at its index
\* ------------------------------------------------------------------------
RECURSIVE StableLeaves(_)
StableLeaves(masks) ==
  IF masks = <<>> THEN <<>>
  ELSE (IF Len(Head(masks).sub) = 1 THEN <<Head(masks)>>
        ELSE StableLeaves(Head(masks).sub)) \o StableLeaves(Tail(masks))

DBSCANCalled == direct.fn = "DBSCANSegmentation.Invoke" /\ direct.out # None

C15_EmitsStableLeaves ==
  DBSCANCalled =>
    /\ Returned(direct.out)
    /\ LET seg == direct.out.value[2]
       IN /\ seg.masks = StableLeaves(direct.args.cMsks)
          /\ Len(seg.contours) = Len(seg.masks)
          /\ \A n \in 1..Len(seg.masks) :
               seg.contours[n] = FromBinaryImage(direct.args.inData.imgPrimary, seg.masks[n])

\* the part of C15 the code keeps: one contour per emitted mask
C15_OneContourPerMask ==
  DBSCANCalled =>
    /\ Returned(direct.out)
    /\ LET seg == direct.out.value[2]
       IN /\ Len(seg.contours) = Len(seg.masks)
          /\ \A n \in 1..Len(seg.masks) :
               seg.contours[n] = FromBinaryImage(direct.args.inData.imgPrimary, seg.masks[n])

\* ------------------------------------------------------------------------
\* C16: within one Format call the stages are invoked in the configured
\* order, each once, a stage only after every stage before it has been
\* invoked and has returned; a Format call that returns has invoked all
\* ------------------------------------------------------------------------
\* the stage indices of the calls made for unit u, in the order of the calls
RECURSIVE StagesInvokedFor(_, _)
StagesInvokedFor(u, calls) ==
  IF calls = <<>> THEN <<>>
  ELSE (IF Head(calls).unit = u THEN <<Head(calls).stage>> ELSE <<>>)
       \o StagesInvokedFor(u, Tail(calls))

C16_StagesRunInOrder ==
  \A u \in 1..i :
    LET ran == StagesInvokedFor(u, invoked)
    IN /\ \A n \in 1..Len(ran) : ran[n] = n
       /\ Len(ran) <= Len(cfg.stages)
       /\ \A n \in 1..Len(ran) : n < Len(ran) => Len(HistoryOf(u)) > n
       /\ (u <= Len(done) /\ done[u].cls = "FormattedData") => Len(ran) = Len(cfg.stages)

\* the second unit's Format call has returned after three stages or more
C16_Witness ==
  /\ Len(done) = 2
  /\ done[2].cls = "FormattedData"
  /\ Len(cfg.stages) >= 3
  /\ StagesInvokedFor(2, invoked) = [n \in 1..Len(cfg.stages) |-> n]

\* ------------------------------------------------------------------------
\* C17: a stage that declares Snapshot input, at position n of the stage
\* list, is invoked with a Snapshot of exactly n entries: the "Disk" entry
\* of the unit, then the named outputs of the stages before it, in order
\* ------------------------------------------------------------------------
DeclaresSnapshotInput(c) == GetInterfaceIDs(cfg.stages[c.stage])[1] = SnapshotChannelID

C17_SnapshotIsHistorySoFar ==
  \A n \in 1..Len(invoked) :
    LET c == invoked[n]
    IN DeclaresSnapshotInput(c) =>
         /\ c.inData.cls = "SnapshotChannel"
         /\ Len(c.inData.formatted) = c.stage
         /\ c.inData.formatted[1] = <<"Disk", data[c.unit]>>
         /\ \A j \in 1..(c.stage - 1) :
              c.inData.formatted[j + 1][1] = GetName(cfg.stages[j])
         /\ c.inData.formatted = SubSeq(HistoryOf(c.unit), 1, c.stage)

\* a Snapshot-input stage in third place, after a stage that returned a
\* DoubleImage, and a Snapshot-input stage in first place
C17_Witness ==
  /\ \E n \in 1..Len(invoked) :
       /\ DeclaresSnapshotInput(invoked[n])
       /\ invoked[n].stage = 3
       /\ Len(invoked[n].inData.formatted) = 3
       /\ invoked[n].inData.formatted[3][2].cls = "DoubleImageChannel"
  /\ \E n \in 1..Len(invoked) :
       /\ DeclaresSnapshotInput(invoked[n])
       /\ invoked[n].stage = 1
       /\ invoked[n].inData = SnapshotChannel(<< <<"Disk", data[invoked[n].unit]>> >>)

\* ------------------------------------------------------------------------
\* C18: the FormattedData of a valid unit has the unit's raw as base and a
\* proc of one entry more than there are stages, the entry after the first
\* n being what the n-th stage returned under its name; while Format runs
\* the history changes only by one entry appended per stage
\* ------------------------------------------------------------------------
ResultOfRun(u) ==
  /\ done[u].base = data[u].raw
  /\ Len(done[u].proc) = Len(cfg.stages) + 1
  /\ \A n \in 1..Len(cfg.stages) : done[u].proc[n + 1][1] = GetName(cfg.stages[n])

HistoryStep ==
  pc = "Format" =>
    \/ intmed' = intmed /\ pc' = "raised"
    \/ /\ pc' = "FormatSet"
       /\ done' = Append(done, FormattedData(data[i].raw, intmed))
    \/ /\ Len(intmed') = Len(intmed) + 1
       /\ SubSeq(intmed', 1, Len(intmed)) = intmed
       /\ \/ intmed'[Len(intmed')] = None
          \/ /\ intmed'[Len(intmed')][1] = GetName(cfg.stages[k])
             /\ intmed'[Len(intmed')][2] = inData'

C18_ResultIsWholeHistory ==
  /\ [](\A u \in 1..Len(done) : done[u].cls = "FormattedData" => ResultOfRun(u))
  /\ [][HistoryStep]_vars

\* the second unit's Format call has returned a proc of four entries or more
C18_Witness ==
  /\ Len(done) = 2
  /\ done[2].cls = "FormattedData"
  /\ done[2].base = data[2].raw
  /\ Len(done[2].proc) >= 4
  /\ Len(done[2].proc) = Len(cfg.stages) + 1

\* ------------------------------------------------------------------------
\* C19: a stage that does not declare Snapshot input is invoked, in first
\* place, with a SingleImage of the unit's raw image, and in a later place
\* with the very channel the stage before it returned, whether or not that
\* stage took a Snapshot
\* ------------------------------------------------------------------------
C19_ChannelIsThreaded ==
  \A n \in 1..Len(invoked) :
    LET c == invoked[n]
    IN ~DeclaresSnapshotInput(c) =>
         IF c.stage = 1
         THEN c.inData = SingleImageChannel(data[c.unit].raw.rgb)
         ELSE c.inData = HistoryOf(c.unit)[c.stage][2]

\* a stage in third place invoked with what a Snapshot-input stage returned
C19_Witness ==
  \E n \in 1..Len(invoked) :
    /\ ~DeclaresSnapshotInput(invoked[n])
    /\ invoked[n].stage = 3
    /\ GetInterfaceIDs(cfg.stages[2])[1] = SnapshotChannelID
    /\ invoked[n].inData = HistoryOf(invoked[n].unit)[3][2]
    /\ invoked[n].inData.cls = "DoubleImageChannel"

\* ------------------------------------------------------------------------
\* C20: the CHANNEL_IDs of the four channel classes are pairwise distinct,
\* so that two IDs are equal exactly when the classes are the same, and
\* they are the same in every run of the program
\* ------------------------------------------------------------------------
Imported == direct.fn = "import StageChannel" /\ direct.out # None

C20_IdsDistinctAndStable ==
  Imported =>
    /\ \A a, b \in ChannelClasses :
         (direct.out.value[a] = direct.out.value[b]) <=> (a = b)
    /\ \A n \in 1..Len(direct.args) : direct.args[n] = direct.out.value

\* ------------------------------------------------------------------------
\* C21: once the Pipeline is constructed, no step of Format or FormatSet and
\* no stage invocation changes its PipelineConfig: the stage list, its
\* order, and each stage's configuration and interface IDs stay what they
\* were when IsCompatible accepted them
\* ------------------------------------------------------------------------
Constructed == cfg # None

ConfigKept ==
  Constructed =>
    /\ cfg' = cfg
    /\ Len(cfg'.stages) = Len(cfg.stages)
    /\ \A n \in 1..Len(cfg.stages) :
         /\ cfg'.stages[n] = cfg.stages[n]
         /\ GetInterfaceIDs(cfg'.stages[n]) = GetInterfaceIDs(cfg.stages[n])

C21_ConfigIsNeverChanged ==
  /\ [](Constructed => (/\ cfg = PipelineConfig("Options", stages)
                        /\ IsCompatible(cfg.stages) = Return(TRUE)))
  /\ [][ConfigKept]_vars

\* FormatSet has returned after two units went through three stages or more
C21_Witness ==
  /\ pc = "returned"
  /\ Len(done) = 2
  /\ \A u \in 1..2 : done[u].cls = "FormattedData"
  /\ Len(cfg.stages) >= 3
  /\ Len(invoked) = 2 * Len(cfg.stages)
  /\ cfg = PipelineConfig("Options", stages)

\* ------------------------------------------------------------------------
\* C22: when a stage raises during the Format call of a unit, that call
\* returns no FormattedData and invokes no later stage; FormatSet does not
\* catch the exception, so it returns no list and takes no further unit
\* ------------------------------------------------------------------------
StageFailed == pc = "raised" /\ i > 0

C22_FailureEndsTheRun ==
  /\ [](StageFailed =>
          /\ err # ""
          /\ Len(done) = i - 1
          /\ Len(StagesInvokedFor(i, invoked)) = k
          /\ invoked[Len(invoked)] = [unit |-> i, stage |-> k, inData |-> inData]
          /\ \A n \in 1..Len(invoked) : invoked[n].unit <= i)
  /\ [][StageFailed => (/\ pc' = "raised"
                        /\ done' = done
                        /\ invoked' = invoked
                        /\ i' = i)]_vars

\* the first of two units fails in a stage that is not the last, the second
\* unit being valid
C22_Witness ==
  /\ StageFailed
  /\ i = 1
  /\ Len(data) = 2
  /\ data[2].raw.valid
  /\ k < Len(cfg.stages)
  /\ k > 1
  /\ done = <<>>

====
